---- MODULE Spec2Model ----
(***************************************************************************)
(* BGRate.py: the RCDB -> rate calculator -> CSV pipeline.                 *)
(*                                                                         *)
(* Text is modelled as a sequence of one-character strings.  A Python      *)
(* value is a record tagged by its type (field t): int, float, str or      *)
(* none.  A float is a sign, a decimal mantissa m and a decimal exponent   *)
(* x (value m * 10^x, m without trailing zeros), so that the products by   *)
(* 10**(-3), 10**(-6) and 10**(-9) and the '%g' conversion are computed    *)
(* on decimals; the binary rounding of a double is not represented.        *)
(***************************************************************************)
EXTENDS Integers, Sequences, FiniteSets, TLC

VARIABLES pc, file, table, idx, BGRate, requests, trace, service, db,
          parsedArgs, runNo, prevFile, err, fin, fout

vars == <<pc, file, table, idx, BGRate, requests, trace, service, db,
          parsedArgs, runNo, prevFile, err, fin, fout>>

----------------------------------------------------------------------------
(* Bounds of the model *)

MaxRows == 2
MaxRuns == 2
MaxBody == 3
MaxRad == 4
MaxSegs == 4

----------------------------------------------------------------------------
(* Characters and Python values *)

Digits == {"0", "1", "2", "3", "4", "5", "6", "7", "8", "9"}

Whitespace == {" ", "\t", "\n"}

DigitVal(c) ==
    CASE c = "0" -> 0 [] c = "1" -> 1 [] c = "2" -> 2 [] c = "3" -> 3
      [] c = "4" -> 4 [] c = "5" -> 5 [] c = "6" -> 6 [] c = "7" -> 7
      [] c = "8" -> 8 [] c = "9" -> 9

DigitChar(d) == <<"0", "1", "2", "3", "4", "5", "6", "7", "8", "9">>[d + 1]

NoneV == [t |-> "none"]
IntV(n) == [t |-> "int", n |-> n]
StrV(s) == [t |-> "str", s |-> s]

RECURSIVE Pow10(_)
Pow10(k) == IF k = 0 THEN 1 ELSE 10 * Pow10(k - 1)

RECURSIVE Normalize(_, _)
Normalize(m, x) ==
    IF m = 0 THEN <<0, 0>>
    ELSE IF m % 10 = 0 THEN Normalize(m \div 10, x + 1)
    ELSE <<m, x>>

FloatV(neg, m, x) ==
    LET nx == Normalize(m, x)
    IN  [t |-> "float", neg |-> neg, m |-> nx[1], x |-> nx[2]]

Raise(kind) == [t |-> "error", kind |-> kind]

IsError(v) == v.t = "error"

(* Seq(S) restricted to the lengths 0..n *)
SeqUpTo(S, n) == UNION {[1..k -> S] : k \in 0..n}

RECURSIVE Flatten(_)
Flatten(ss) == IF ss = <<>> THEN <<>> ELSE Head(ss) \o Flatten(Tail(ss))

(* the first position >= i of s that holds no character of S *)
RECURSIVE SpanEnd(_, _, _)
SpanEnd(s, i, S) ==
    IF i > Len(s) \/ s[i] \notin S THEN i ELSE SpanEnd(s, i + 1, S)

RECURSIVE DigitsVal(_)
DigitsVal(s) ==
    IF s = <<>> THEN 0
    ELSE 10 * DigitsVal(SubSeq(s, 1, Len(s) - 1)) + DigitVal(s[Len(s)])

RECURSIVE NatDigits(_)
NatDigits(n) ==
    IF n < 10 THEN <<DigitChar(n)>>
    ELSE Append(NatDigits(n \div 10), DigitChar(n % 10))

Zeros(k) == [j \in 1..k |-> "0"]

RECURSIVE RStripWs(_)
RStripWs(s) ==
    IF s # <<>> /\ s[Len(s)] \in Whitespace
    THEN RStripWs(SubSeq(s, 1, Len(s) - 1))
    ELSE s

----------------------------------------------------------------------------
(* float(s): surrounding whitespace, an optional sign, digits with an       *)
(* optional point, an optional exponent; anything else is a ValueError.     *)

TakeWhile(s, S) == SubSeq(s, 1, SpanEnd(s, 1, S) - 1)

DropWhile(s, S) == SubSeq(s, SpanEnd(s, 1, S), Len(s))

Abs(n) == IF n < 0 THEN 0 - n ELSE n

Min(S) == CHOOSE a \in S : \A b \in S : a <= b

Max(S) == CHOOSE a \in S : \A b \in S : b <= a

(* the exponent after the 'e': an optional sign and at least one digit,     *)
(* nothing after them; ds are the mantissa's digits, nf of them fractional  *)
FloatExponent(ds, nf, rest, neg) ==
    LET esigned == rest # <<>> /\ rest[1] \in {"+", "-"}
        d       == IF esigned THEN Tail(rest) ELSE rest
    IN  IF d = <<>> \/ SpanEnd(d, 1, Digits) # Len(d) + 1
        THEN Raise("ValueError")
        ELSE FloatV(neg, DigitsVal(ds),
                    (IF esigned /\ rest[1] = "-" THEN 0 - DigitsVal(d)
                     ELSE DigitsVal(d)) - nf)

FloatAfterFraction(ip, fp, rest, neg) ==
    IF ip \o fp = <<>> THEN Raise("ValueError")
    ELSE IF rest = <<>> THEN FloatV(neg, DigitsVal(ip \o fp), 0 - Len(fp))
    ELSE IF rest[1] \in {"e", "E"}
    THEN FloatExponent(ip \o fp, Len(fp), Tail(rest), neg)
    ELSE Raise("ValueError")

FloatAfterInt(ip, rest, neg) ==
    IF rest # <<>> /\ rest[1] = "."
    THEN FloatAfterFraction(ip, TakeWhile(Tail(rest), Digits),
                            DropWhile(Tail(rest), Digits), neg)
    ELSE FloatAfterFraction(ip, <<>>, rest, neg)

FloatUnsigned(s, neg) ==
    FloatAfterInt(TakeWhile(s, Digits), DropWhile(s, Digits), neg)

FloatLiteral(s) ==
    IF s # <<>> /\ s[1] \in {"+", "-"}
    THEN FloatUnsigned(Tail(s), s[1] = "-")
    ELSE FloatUnsigned(s, FALSE)

PyFloat(str) == FloatLiteral(RStripWs(DropWhile(str, Whitespace)))

(* v * 10**(-k) for a Python number v; a str or None operand is a TypeError *)
Scale(v, k) ==
    CASE v.t = "int"   -> FloatV(v.n < 0, Abs(v.n), 0 - k)
      [] v.t = "float" -> FloatV(v.neg, v.m, v.x - k)
      [] OTHER         -> Raise("TypeError")

----------------------------------------------------------------------------
(* The '%g' conversion with prec significant digits: trailing zeros         *)
(* removed, exponent form when the decimal exponent is below -4 or at       *)
(* least prec.  '%g' uses 6 digits, str() of a float uses 12.               *)

Precision == 6

StrPrecision == 12

(* m * 10^x with the last k digits of m rounded away, cut = 10^k *)
RoundCut(m, x, cut, k) ==
    Normalize(IF 2 * (m % cut) > cut \/ (2 * (m % cut) = cut /\ (m \div cut) % 2 = 1)
              THEN (m \div cut) + 1 ELSE m \div cut,
              x + k)

RoundTo(m, x, prec) ==
    IF Len(NatDigits(m)) <= prec THEN Normalize(m, x)
    ELSE RoundCut(m, x, Pow10(Len(NatDigits(m)) - prec), Len(NatDigits(m)) - prec)

ExpDigits(a) == IF a < 10 THEN <<"0">> \o NatDigits(a) ELSE NatDigits(a)

Scientific(ds, X) ==
    <<ds[1]>> \o (IF Len(ds) > 1 THEN <<".">> \o Tail(ds) ELSE <<>>)
    \o <<"e", IF X < 0 THEN "-" ELSE "+">> \o ExpDigits(Abs(X))

(* the digits ds, worth ds * 10^x, with X the exponent of the first digit *)
Place(ds, x, X, prec) ==
    IF ds = <<"0">> THEN ds
    ELSE IF X < 0 - 4 \/ X >= prec THEN Scientific(ds, X)
    ELSE IF X < 0 THEN <<"0", ".">> \o Zeros(Abs(X) - 1) \o ds
    ELSE IF x >= 0 THEN ds \o Zeros(x)
    ELSE SubSeq(ds, 1, X + 1) \o <<".">> \o SubSeq(ds, X + 2, Len(ds))

FormatDigits(ds, x, prec) == Place(ds, x, x + Len(ds) - 1, prec)

FormatRounded(r, prec) == FormatDigits(NatDigits(r[1]), r[2], prec)

FormatFloat(neg, m, x, prec) ==
    (IF neg THEN <<"-">> ELSE <<>>) \o FormatRounded(RoundTo(m, x, prec), prec)

(* '%g' % v *)
PctG(v) ==
    CASE v.t = "float" -> StrV(FormatFloat(v.neg, v.m, v.x, Precision))
      [] v.t = "int"   -> StrV(FormatFloat(v.n < 0, Abs(v.n), 0, Precision))
      [] OTHER         -> Raise("TypeError")

(* repr-style completion of str(float): a number without point or exponent  *)
(* gets '.0'                                                                *)
WithPoint(g) ==
    IF \E k \in 1..Len(g) : g[k] \in {".", "e"} THEN g ELSE g \o <<".", "0">>

(* str(v) *)
PyStr(v) ==
    CASE v.t = "str"   -> v.s
      [] v.t = "none"  -> <<"N", "o", "n", "e">>
      [] v.t = "int"   -> (IF v.n < 0 THEN <<"-">> ELSE <<>>) \o NatDigits(Abs(v.n))
      [] v.t = "float" -> WithPoint(FormatFloat(v.neg, v.m, v.x, StrPrecision))

IntLiteral(s) ==
    IF s = <<>> \/ SpanEnd(s, 1, Digits) # Len(s) + 1 THEN Raise("ValueError")
    ELSE IntV(DigitsVal(s))

Negated(v) == IF IsError(v) THEN v ELSE IntV(0 - v.n)

SignedIntLiteral(s) ==
    IF s # <<>> /\ s[1] = "-" THEN Negated(IntLiteral(Tail(s)))
    ELSE IF s # <<>> /\ s[1] = "+" THEN IntLiteral(Tail(s))
    ELSE IntLiteral(s)

(* int(v) of a command-line value: None is a TypeError, text that is not    *)
(* an optionally signed run of digits a ValueError                          *)
PyInt(v) ==
    CASE v.t = "int"  -> v
      [] v.t = "str"  -> SignedIntLiteral(RStripWs(DropWhile(v.s, Whitespace)))
      [] OTHER        -> Raise("TypeError")

(* the integer part of m * 10^x *)
Truncated(m, x) == IF x >= 0 THEN m * Pow10(x) ELSE m \div Pow10(0 - x)

(* '%i' % v *)
PctI(v) ==
    CASE v.t = "int"   -> StrV((IF v.n < 0 THEN <<"-">> ELSE <<>>) \o NatDigits(Abs(v.n)))
      [] v.t = "float" -> StrV((IF v.neg /\ Truncated(v.m, v.x) > 0 THEN <<"-">> ELSE <<>>)
                               \o NatDigits(Truncated(v.m, v.x)))
      [] OTHER         -> Raise("TypeError")

----------------------------------------------------------------------------
(* The parsing steps of CalcBGRate *)

(* s.rstrip(chars): the trailing characters that belong to the SET chars go *)
RECURSIVE RStrip(_, _)
RStrip(s, chars) ==
    IF s # <<>> /\ s[Len(s)] \in chars
    THEN RStrip(SubSeq(s, 1, Len(s) - 1), chars)
    ELSE s

(* the characters of 'mm hole' *)
StripChars == {"m", " ", "h", "o", "l", "e"}

(* '...%g' % (f*10**(-k)) of a parsed number, or the error of the parse *)
Scaled(f, k) == IF IsError(f) THEN f ELSE Scale(f, k)

(* cd = float(table[5].rstrip('mm hole'))*10**(-3) *)
CollimDiam(v) ==
    IF v.t # "str" THEN Raise("AttributeError")
    ELSE Scaled(PyFloat(RStrip(v.s, StripChars)), 3)

(* [A-Za-z] *)
Letters ==
    {"A", "B", "C", "D", "E", "F", "G", "H", "I", "J", "K", "L", "M", "N",
     "O", "P", "Q", "R", "S", "T", "U", "V", "W", "X", "Y", "Z", "a", "b",
     "c", "d", "e", "f", "g", "h", "i", "j", "k", "l", "m", "n", "o", "p",
     "q", "r", "s", "t", "u", "v", "w", "x", "y", "z"}

(* [A-Za-z0-9-] *)
TokenChars == Letters \cup Digits \cup {"-"}

(* the pattern written with \s for its space *)
RadSpaces_AnyBlank(s, i) ==
    {j \in (i + 1)..SpanEnd(s, i, TokenChars) :
        j + 1 <= Len(s) /\ s[j] \in Whitespace /\ s[j + 1] \in Digits}

(* the places where a match of '[A-Za-z0-9-]+ ([0-9]+)' that starts at i    *)
(* can have its space: after a token of any length, before a digit          *)
RadSpaces(s, i) ==
    {j \in (i + 1)..SpanEnd(s, i, TokenChars) :
        j + 1 <= Len(s) /\ s[j] = " " /\ s[j + 1] \in Digits}

(* the starts of a match *)
RadStarts(s) == {i \in 1..Len(s) : RadSpaces(s, i) # {}}

(* group(1) of the match whose space is at j: digits, as many as there are *)
RadGroup(s, j) == SubSeq(s, j + 1, SpanEnd(s, j + 1, Digits) - 1)

(* search('[A-Za-z0-9-]+ ([0-9]+)', s).group(1): the leftmost match, its    *)
(* token as long as possible; no match is None, and None.group fails        *)
RadSearch(s) ==
    IF RadStarts(s) = {} THEN Raise("AttributeError")
    ELSE StrV(RadGroup(s, Max(RadSpaces(s, Min(RadStarts(s))))))

FloatOf(g) == IF IsError(g) THEN g ELSE PyFloat(g.s)

(* rt = float(search(...,table[6]).group(1))*10**(-6) *)
RadThickness(v) ==
    IF v.t # "str" THEN Raise("TypeError")
    ELSE Scaled(FloatOf(RadSearch(v.s)), 6)

MarkerLabel == <<"<","t","r",">","<","t","d",">","<","b",">"," ","E","n","d","p","o","i","n","t"," ","t","a","g","g","e","d"," ","f","l","u","x"," ","s","u","m"," ","i","s"," ">>

(* [0-9.E+-] *)
NumChars == Digits \cup {".", "E", "+", "-"}

(* the places of page where the literal stands before a character of the class *)
MarkerStarts(page) ==
    {i \in 1..(Len(page) - Len(MarkerLabel)) :
        /\ SubSeq(page, i, i + Len(MarkerLabel) - 1) = MarkerLabel
        /\ page[i + Len(MarkerLabel)] \in NumChars}

(* group(1) of the match that starts at i: the longest run of the class *)
MarkerGroup(page, i) ==
    SubSeq(page, i + Len(MarkerLabel),
           SpanEnd(page, i + Len(MarkerLabel), NumChars) - 1)

(* the last match taken for the first *)
MarkerSearch_Rightmost(page) ==
    IF MarkerStarts(page) = {} THEN Raise("AttributeError")
    ELSE StrV(MarkerGroup(page, Max(MarkerStarts(page))))

(* search('<tr><td><b> Endpoint tagged flux sum is ([0-9.E+-]+)', page)     *)
(* .group(1): the leftmost match                                            *)
MarkerSearch(page) ==
    IF MarkerStarts(page) = {} THEN Raise("AttributeError")
    ELSE StrV(MarkerGroup(page, Min(MarkerStarts(page))))

(* return float(BGRate)*10**(-9) *)
MarkerRate(page) == Scaled(FloatOf(MarkerSearch(page)), 9)

----------------------------------------------------------------------------
(* The command line *)

PhysicsNames ==
    <<"beamEmittance", "photonNbins", "photonEmax", "photonEmin",
      "collimDistance", "peakElow", "peakEhigh", "backElow", "backEhigh",
      "endpElow", "endpEhigh">>

RunNames == <<"pathToRCDB", "minRun", "maxRun">>

Range(f) == {f[k] : k \in DOMAIN f}

(* the default= of each add_argument; an argument without one is None *)
Defaults ==
    [d \in Range(RunNames) \cup Range(PhysicsNames) |->
        CASE d = "beamEmittance"  -> FloatV(FALSE, 10, 0 - 9)
          [] d = "photonNbins"    -> IntV(2000)
          [] d = "photonEmax"     -> IntV(12)
          [] d = "photonEmin"     -> IntV(3)
          [] d = "collimDistance" -> IntV(76)
          [] d = "peakElow"       -> FloatV(FALSE, 84, 0 - 1)
          [] d = "peakEhigh"      -> IntV(9)
          [] d = "backElow"       -> FloatV(FALSE, 1, 0 - 1)
          [] d = "backEhigh"      -> IntV(3)
          [] d = "endpElow"       -> IntV(10)
          [] d = "endpEhigh"      -> FloatV(FALSE, 117, 0 - 1)
          [] OTHER                -> NoneV]

(* parser.parse_args(): action='store' without type= keeps the text of a    *)
(* given option as a str; an option not given keeps its default             *)
parse_args(argv) ==
    [d \in DOMAIN Defaults |->
        IF d \in DOMAIN argv THEN StrV(argv[d]) ELSE Defaults[d]]

----------------------------------------------------------------------------
(* CalcBGRate up to the request: the query string, as the sequence of its   *)
(* (name, value text) pairs, or the first error raised on the way           *)

(* '&name=%g' % f of a computed f, or the error of computing it *)
Formatted(f) == IF IsError(f) THEN f ELSE PctG(f)

(* '&name=%g' % (v * 10**(-k)) *)
Converted(v, k) == Formatted(Scale(v, k))

finalStr == <<"run", <<"plot+collimated+beam+rate+spectrum">>>>

(* the formatted pieces in the order CalcBGRate computes them: the eleven   *)
(* arguments, then the five values of the row                               *)
Pieces(run, args) ==
    <<PctG(args["beamEmittance"]), PctI(args["photonNbins"]),
      PctG(args["photonEmax"]), PctG(args["photonEmin"]),
      PctG(args["collimDistance"]), PctG(args["peakElow"]),
      PctG(args["peakEhigh"]), PctG(args["backElow"]),
      PctG(args["backEhigh"]), PctG(args["endpElow"]),
      PctG(args["endpEhigh"]),
      Converted(run[3], 3), Converted(run[4], 3), Converted(run[5], 3),
      Formatted(CollimDiam(run[6])), Formatted(RadThickness(run[7]))>>

(* where each piece goes in conditions = '?' + beamEnergyStr + ... *)
QueryOrder ==
    <<<<"beamEnergy", 13>>, <<"beamCurrent", 12>>, <<"beamEmittance", 1>>,
      <<"radThickness", 16>>, <<"photonEpeak", 14>>, <<"photonNbins", 2>>,
      <<"photonEmax", 3>>, <<"photonEmin", 4>>, <<"collimDistance", 5>>,
      <<"collimDiam", 15>>, <<"peakElow", 6>>, <<"peakEhigh", 7>>,
      <<"backElow", 8>>, <<"backEhigh", 9>>, <<"endpElow", 10>>,
      <<"endpEhigh", 11>>>>

Assemble(steps) ==
    IF \E k \in DOMAIN steps : IsError(steps[k])
    THEN steps[Min({k \in DOMAIN steps : IsError(steps[k])})]
    ELSE [t |-> "query",
          q |-> [k \in DOMAIN QueryOrder |->
                    <<QueryOrder[k][1], steps[QueryOrder[k][2]].s>>]
                \o <<finalStr>>]

conditions(run, args) == Assemble(Pieces(run, args))

(* an answer already received is used again instead of a new request *)
urlopen_Cached(log, q) == IF q \in Range(log) THEN log ELSE Append(log, q)

(* urlopen(webAddr+conditions): one more request on the wire, log being    *)
(* the requests made so far                                                 *)
urlopen(log, q) == Append(log, q)

(* the rate, or the error, that CalcBGRate makes of the service's answer;   *)
(* urlopen raising is the answer being an error                             *)
CalcBGRate_ZeroOnError(resp) ==
    IF IsError(resp) \/ IsError(MarkerRate(resp.body)) THEN FloatV(FALSE, 0, 0)
    ELSE MarkerRate(resp.body)

CalcBGRate(resp) ==
    IF IsError(resp) THEN resp ELSE MarkerRate(resp.body)

----------------------------------------------------------------------------
(* The Condition Fetcher *)

(* a failure of the fetch taken for an empty result *)
BGRate_RCDB_values_EmptyOnError(minRun, maxRun, args, d) ==
    IF \/ args["pathToRCDB"].t # "str" \/ d.status # "ok"
       \/ IsError(PyInt(minRun)) \/ IsError(PyInt(maxRun))
    THEN [t |-> "table", rows |-> <<>>]
    ELSE [t |-> "table",
          rows |-> SelectSeq(d.rows,
                      LAMBDA run : /\ PyInt(minRun).n <= run[1].n
                                   /\ run[1].n <= PyInt(maxRun).n)]

(* BGRate_RCDB_values(minRun, maxRun) on the database d: the table, or the  *)
(* error of the first failing step                                          *)
BGRate_RCDB_values(minRun, maxRun, args, d) ==
    IF args["pathToRCDB"].t # "str" THEN Raise("TypeError")
    ELSE IF d.status # "ok" THEN Raise("OperationalError")
    ELSE IF IsError(PyInt(minRun)) THEN PyInt(minRun)
    ELSE IF IsError(PyInt(maxRun)) THEN PyInt(maxRun)
    ELSE [t |-> "table",
          rows |-> SelectSeq(d.rows,
                      LAMBDA run : /\ PyInt(minRun).n <= run[1].n
                                   /\ run[1].n <= PyInt(maxRun).n)]

----------------------------------------------------------------------------
(* The CSV Writer *)

Header == <<"r","u","n","_","n","u","m","b","e","r",",","e","v","e","n","t","_","c","o","u","n","t",",","b","e","a","m","_","o","n","_","c","u","r","r","e","n","t",",","b","e","a","m","_","e","n","e","r","g","y",",","c","o","h","e","r","e","n","t","_","p","e","a","k",",","c","o","l","l","i","m","a","t","o","r","_","d","i","a","m","e","t","e","r",",","r","a","d","i","a","t","o","r","_","t","y","p","e",",","B","G","R","a","t","e","\n">>

(* the values joined by commas, none after the last *)
RECURSIVE runToWrite_Joined(_)
runToWrite_Joined(run) ==
    IF Len(run) <= 1 THEN Flatten([k \in DOMAIN run |-> PyStr(run[k])])
    ELSE PyStr(Head(run)) \o <<",">> \o runToWrite_Joined(Tail(run))

(* for val in run: runToWrite += str(val) + ',' *)
RECURSIVE runToWrite(_)
runToWrite(run) ==
    IF run = <<>> THEN <<>>
    ELSE PyStr(Head(run)) \o <<",">> \o runToWrite(Tail(run))

(* the line left without its end *)
RowLine_Unterminated(run, rate) == runToWrite(run) \o PctG(rate).s

(* runToWrite+'%g'%BGRate+'\n' *)
RowLine(run, rate) == runToWrite(run) \o PctG(rate).s \o <<"\n">>

(* the file opened for appending *)
OpenW_Append(old) == old

(* open(fileName,'w') on a file that holds old *)
OpenW(old) == <<>>

----------------------------------------------------------------------------
(* The inputs of a run: the command line, the database, the rate service    *)
(* and what the output file held before                                     *)

GoodArgv == [pathToRCDB |-> <<"d", "b">>, minRun |-> <<"1">>, maxRun |-> <<"9">>]

CliText == <<"1", "1">>

Without(f, k) == [d \in DOMAIN f \ {k} |-> f[d]]

ArgvChoices ==
    {GoodArgv, [GoodArgv EXCEPT !.minRun = <<"x">>],
     [GoodArgv EXCEPT !.minRun = <<"2">>]}
    \cup {Without(GoodArgv, k) : k \in Range(RunNames)}
    \cup {GoodArgv @@ (n :> CliText) : n \in Range(PhysicsNames)}

Collim5  == StrV(<<"5", "m", "m", " ", "h", "o", "l", "e">>)
Blocking == StrV(<<"B", "l", "o", "c", "k", "i", "n", "g">>)

RadBe75    == StrV(<<"B", "e", " ", "7", "5">>)
RadComma   == StrV(<<"B", "e", " ", "7", ",", "u">>)
RadNewline == StrV(<<"B", "e", " ", "7", "\n">>)
RadNone    == StrV(<<"B", "e">>)

(* the six conditions of a run, in the order of valueList *)
Conditions(cd, rt) ==
    <<IntV(5), FloatV(FALSE, 1505, 0 - 1), IntV(11600), IntV(8800), cd, rt>>

ConditionChoices ==
    {Conditions(Collim5, RadBe75), Conditions(Collim5, RadComma),
     Conditions(Collim5, RadNewline), Conditions(Collim5, RadNone),
     Conditions(Blocking, RadBe75)}

(* get_values(valueList, True): each row starts with its run number; the    *)
(* runs of the database are numbered 1, 2, ...                              *)
Rows(cs) == [k \in DOMAIN cs |-> <<IntV(k)>> \o cs[k]]

DbChoices ==
    {[status |-> "unreachable", rows |-> <<>>]}
    \cup {[status |-> "ok", rows |-> Rows(cs)] :
            cs \in SeqUpTo(ConditionChoices, MaxRows)}

GoodPage ==
    <<"<", "p", ">">> \o MarkerLabel
    \o <<"1", ".", "2", "3", "E", "+", "0", "5", "<">>

NoMarkerPage == <<"<", "p", ">">>

Responses ==
    {[t |-> "page", body |-> GoodPage], [t |-> "page", body |-> NoMarkerPage],
     Raise("URLError")}

StaleFile == Header \o <<"o", "l", "d", "\n">>

----------------------------------------------------------------------------
(* The run, statement by statement *)

Abort(kind) ==
    /\ pc' = "aborted"
    /\ err' = kind

(* with open(fileName,'w') as f *)
Open ==
    /\ pc = "start"
    /\ pc' = "opened"
    /\ file' = OpenW(file)
    /\ trace' = Append(trace, <<"open">>)
    /\ UNCHANGED <<table, idx, BGRate, requests, service, db, parsedArgs,
                   runNo, prevFile, err, fin, fout>>

(* f.write('run_number,...,BGRate\n') *)
WriteHeader ==
    /\ pc = "opened"
    /\ pc' = "header"
    /\ file' = file \o Header
    /\ UNCHANGED <<table, idx, BGRate, requests, trace, service, db,
                   parsedArgs, runNo, prevFile, err, fin, fout>>

(* BGRate_RCDB_values(parsedArgs.minRun,parsedArgs.maxRun) *)
Fetch ==
    /\ pc = "header"
    /\ LET r == BGRate_RCDB_values(parsedArgs["minRun"], parsedArgs["maxRun"],
                                   parsedArgs, db)
       IN  IF IsError(r)
           THEN /\ Abort(r.kind)
                /\ UNCHANGED <<table, idx, trace>>
           ELSE /\ pc' = "loop"
                /\ table' = r.rows
                /\ idx' = 1
                /\ trace' = Append(trace, <<"query">>)
                /\ UNCHANGED err
    /\ UNCHANGED <<file, BGRate, requests, service, db, parsedArgs, runNo,
                   prevFile, fin, fout>>

(* BGRate = CalcBGRate(run, parsedArgs.beamEmittance, ...) for the next row: *)
(* the service answers a query it has answered before as it did then         *)
Calc ==
    /\ pc = "loop"
    /\ idx <= Len(table)
    /\ LET c == conditions(table[idx], parsedArgs)
       IN  IF IsError(c)
           THEN /\ Abort(c.kind)
                /\ UNCHANGED <<BGRate, requests, trace, service>>
           ELSE \E resp \in (IF c.q \in DOMAIN service
                             THEN {service[c.q]} ELSE Responses) :
                  /\ service' = [q \in DOMAIN service \cup {c.q} |->
                                    IF q = c.q THEN resp ELSE service[q]]
                  /\ requests' = urlopen(requests, c.q)
                  /\ trace' = Append(trace, <<"request", idx>>)
                  /\ LET r == CalcBGRate(resp)
                     IN  IF IsError(r)
                         THEN Abort(r.kind) /\ UNCHANGED BGRate
                         ELSE pc' = "row" /\ BGRate' = r /\ UNCHANGED err
    /\ UNCHANGED <<file, table, idx, db, parsedArgs, runNo, prevFile, fin, fout>>

(* f.write(runToWrite+'%g'%BGRate+'\n') *)
WriteRow ==
    /\ pc = "row"
    /\ pc' = "loop"
    /\ file' = file \o RowLine(table[idx], BGRate)
    /\ trace' = Append(trace, <<"write", idx>>)
    /\ idx' = idx + 1
    /\ UNCHANGED <<table, BGRate, requests, service, db, parsedArgs, runNo,
                   prevFile, err, fin, fout>>

(* the loop is exhausted: the file is closed and the process exits 0 *)
Finish ==
    /\ pc = "loop"
    /\ idx > Len(table)
    /\ pc' = "done"
    /\ UNCHANGED <<file, table, idx, BGRate, requests, trace, service, db,
                   parsedArgs, runNo, prevFile, err, fin, fout>>

(* the program is started again with the same command line, against the     *)
(* same database and the same service                                       *)
Rerun ==
    /\ pc \in {"done", "aborted"}
    /\ runNo < MaxRuns
    /\ runNo' = runNo + 1
    /\ prevFile' = StrV(file)
    /\ pc' = "start"
    /\ table' = <<>>
    /\ idx' = 0
    /\ BGRate' = NoneV
    /\ requests' = <<>>
    /\ trace' = <<>>
    /\ err' = "none"
    /\ UNCHANGED <<file, service, db, parsedArgs, fin, fout>>

Init ==
    /\ pc = "start"
    /\ file \in {<<>>, StaleFile}
    /\ table = <<>>
    /\ idx = 0
    /\ BGRate = NoneV
    /\ requests = <<>>
    /\ trace = <<>>
    /\ service = <<>>
    /\ db \in DbChoices
    /\ parsedArgs \in {parse_args(argv) : argv \in ArgvChoices}
    /\ runNo = 1
    /\ prevFile = NoneV
    /\ err = "none"
    /\ fin = NoneV
    /\ fout = NoneV

Next == Open \/ WriteHeader \/ Fetch \/ Calc \/ WriteRow \/ Finish \/ Rerun

Spec == Init /\ [][Next]_vars

----------------------------------------------------------------------------
(* The three parsing steps on their own, each applied to every text of a    *)
(* bounded set                                                              *)

Idle(kind, inputs) ==
    /\ pc = kind
    /\ fin \in inputs
    /\ fout = NoneV
    /\ file = <<>> /\ table = <<>> /\ idx = 0 /\ BGRate = NoneV
    /\ requests = <<>> /\ trace = <<>> /\ service = <<>>
    /\ db = [status |-> "ok", rows |-> <<>>]
    /\ parsedArgs = parse_args(GoodArgv)
    /\ runNo = 1 /\ prevFile = NoneV /\ err = "none"

others == <<file, table, idx, BGRate, requests, trace, service, db,
            parsedArgs, runNo, prevFile, err, fin>>

CollimAlphabet == {"5", ".", " ", "m", "e", "x"}

UnitSuffix == <<"m", "m", " ", "h", "o", "l", "e">>

CollimTails ==
    {<<>>, UnitSuffix, <<" ">> \o UnitSuffix, <<" ", "m", "m">>,
     <<"h", "o", "l", "e">>}

CollimInputs ==
    {StrV(b \o u) : b \in SeqUpTo(CollimAlphabet, MaxBody), u \in CollimTails}

InitCollim == Idle("collim", CollimInputs)

ApplyCollim ==
    /\ pc = "collim"
    /\ pc' = "collimDone"
    /\ fout' = CollimDiam(fin)
    /\ UNCHANGED others

SpecCollim == InitCollim /\ [][ApplyCollim]_vars

RadAlphabet == {"B", "-", "7", " ", "\t", ","}

RadInputs == {StrV(s) : s \in SeqUpTo(RadAlphabet, MaxRad)}

InitRad == Idle("rad", RadInputs)

ApplyRad ==
    /\ pc = "rad"
    /\ pc' = "radDone"
    /\ fout' = RadThickness(fin)
    /\ UNCHANGED others

SpecRad == InitRad /\ [][ApplyRad]_vars

PlainLabel == <<"E","n","d","p","o","i","n","t"," ","t","a","g","g","e","d"," ","f","l","u","x"," ","s","u","m"," ","i","s"," ">>

(* pieces of a page that continue a number *)
NumSegs == {<<"1", ".", "5">>, <<"E", "+", "1">>, <<".">>, <<"7">>}

MarkerSegs == {MarkerLabel, PlainLabel, <<"e", "+", "1">>, <<"x">>} \cup NumSegs

(* a page given as the sequence of its pieces *)
PageInputs == {[t |-> "segs", segs |-> ss] : ss \in SeqUpTo(MarkerSegs, MaxSegs)}

InitMarker == Idle("marker", PageInputs)

ApplyMarker ==
    /\ pc = "marker"
    /\ pc' = "markerDone"
    /\ fout' = MarkerRate(Flatten(fin.segs))
    /\ UNCHANGED others

SpecMarker == InitMarker /\ [][ApplyMarker]_vars

----------------------------------------------------------------------------
(* Collimator diameter *)

(* the reference: the text must end with the unit, what stands before it is *)
(* the number                                                               *)
StripSuffix(s) ==
    IF Len(s) >= Len(UnitSuffix)
       /\ SubSeq(s, Len(s) - Len(UnitSuffix) + 1, Len(s)) = UnitSuffix
    THEN Scaled(PyFloat(SubSeq(s, 1, Len(s) - Len(UnitSuffix))), 3)
    ELSE Raise("ValueError")

(* C4: for every collimator text, CalcBGRate's collimDiam is what stripping *)
(* the unit suffix and scaling by 10^-3 gives, and a text the reference     *)
(* rejects (no suffix, or no number before it) is rejected.                 *)
C4_CollimAgreesWithSuffixStripping ==
    pc = "collimDone" =>
        IF IsError(StripSuffix(fin.s)) THEN IsError(fout)
        ELSE fout = StripSuffix(fin.s)

----------------------------------------------------------------------------
(* Radiator type *)

(* the places of s where whitespace, of any kind and length, stands between *)
(* a token character and a digit                                            *)
BlankDigits(s) ==
    {j \in 2..(Len(s) - 1) :
        /\ s[j - 1] \in TokenChars
        /\ s[j] \in Whitespace
        /\ SpanEnd(s, j, Whitespace) <= Len(s)
        /\ s[SpanEnd(s, j, Whitespace)] \in Digits}

SpacedDigits(s) ==
    {j \in 2..(Len(s) - 1) :
        s[j - 1] \in TokenChars /\ s[j] = " " /\ s[j + 1] \in Digits}

----------------------------------------------------------------------------
(* The marker of the response *)

(* the places of page where the literal of the pattern stands *)
LabelPlaces(page) ==
    {i \in 1..(Len(page) - Len(MarkerLabel) + 1) :
        SubSeq(page, i, i + Len(MarkerLabel) - 1) = MarkerLabel}

(* the lengths of the floating-point numbers that start at i *)
NumberLengths(page, i) ==
    {k \in 1..(Len(page) - i + 1) :
        /\ page[i] \notin Whitespace
        /\ ~IsError(FloatLiteral(SubSeq(page, i, i + k - 1)))}

AfterFirstLabel(page) == Min(LabelPlaces(page)) + Len(MarkerLabel)

(* C6 as stated, the label read as the whole literal of the pattern: when   *)
(* the first label of the body is followed by a floating-point number,      *)
(* plain or with an exponent, the result is that number x 10^-9; a body     *)
(* without the label fails.                                                 *)
C6_NumberAfterFirstLabel ==
    pc = "markerDone" =>
        LET page == Flatten(fin.segs)
        IN  IF LabelPlaces(page) = {} THEN IsError(fout)
            ELSE NumberLengths(page, AfterFirstLabel(page)) # {} =>
                   fout = Scale(FloatLiteral(SubSeq(page, AfterFirstLabel(page),
                                   AfterFirstLabel(page) - 1
                                   + Max(NumberLengths(page, AfterFirstLabel(page))))), 9)

(* the run of class characters that the pieces from the k-th on start with: *)
(* a piece of NumSegs is in the class throughout, the label of the claim    *)
(* only with its first letter, an E                                         *)
RECURSIVE ClassRun(_, _)
ClassRun(segs, k) ==
    IF k > Len(segs) THEN <<>>
    ELSE IF segs[k] \in NumSegs THEN segs[k] \o ClassRun(segs, k + 1)
    ELSE IF segs[k] = PlainLabel THEN <<"E">>
    ELSE <<>>

(* the pieces that are the full literal and stand before a class character *)
LiteralPlaces(segs) ==
    {k \in 1..(Len(segs) - 1) : segs[k] = MarkerLabel /\ ClassRun(segs, k + 1) # <<>>}

(* C6 amended: the literal is '<tr><td><b> Endpoint tagged flux sum is ';   *)
(* at its leftmost occurrence that a character of 0-9 . E + - follows, the  *)
(* longest run of such characters is taken; the result is float(run) x      *)
(* 10^-9, a ValueError if the run is no float literal; a body without such  *)
(* an occurrence fails with AttributeError.                                 *)
C6_LeftmostLiteralAndClassRun ==
    pc = "markerDone" =>
        IF LiteralPlaces(fin.segs) = {} THEN fout = Raise("AttributeError")
        ELSE fout = Scaled(PyFloat(ClassRun(fin.segs, Min(LiteralPlaces(fin.segs)) + 1)), 9)

(* the second literal is the first one that a number follows *)
C6_Witness ==
    /\ pc = "markerDone"
    /\ fin.segs = <<MarkerLabel, <<"x">>, MarkerLabel, <<"1", ".", "5">>>>
    /\ fout = FloatV(FALSE, 15, 0 - 10)

----------------------------------------------------------------------------
(* The output file read back *)

RECURSIVE Find(_, _, _)
Find(s, i, c) == IF i > Len(s) \/ s[i] = c THEN i ELSE Find(s, i + 1, c)

(* the complete lines of a text, without their ends *)
RECURSIVE Lines(_)
Lines(text) ==
    LET k == Find(text, 1, "\n")
    IN  IF k > Len(text) THEN <<>>
        ELSE <<SubSeq(text, 1, k - 1)>> \o Lines(SubSeq(text, k + 1, Len(text)))

FieldCount(line) == 1 + Cardinality({k \in DOMAIN line : line[k] = ","})

HeaderLine == SubSeq(Header, 1, Len(Header) - 1)

(* of the lines ls: how many are the header, and whether each has 8 fields *)
HeaderCount(ls) == Cardinality({k \in DOMAIN ls : ls[k] = HeaderLine})

EightFields(ls) == \A k \in DOMAIN ls : FieldCount(ls[k]) = 8

StartsWith(text, p) == Len(text) >= Len(p) /\ SubSeq(text, 1, Len(p)) = p

Drop(text, n) == SubSeq(text, n + 1, Len(text))

(* the characters of a '%g' number *)
RateChars == Digits \cup {".", "e", "+", "-"}

(* text is made of one record per row, in the order of rows: the values of  *)
(* the row each followed by a comma, a number, the end of the line          *)
RECURSIVE Records(_, _), RateEnds(_, _)
Records(text, rows) ==
    IF rows = <<>> THEN text = <<>>
    ELSE /\ StartsWith(text, runToWrite(Head(rows)))
         /\ RateEnds(Drop(text, Len(runToWrite(Head(rows)))), Tail(rows))

RateEnds(rest, rows) ==
    /\ TakeWhile(rest, RateChars) # <<>>
    /\ Len(TakeWhile(rest, RateChars)) < Len(rest)
    /\ rest[Len(TakeWhile(rest, RateChars)) + 1] = "\n"
    /\ Records(Drop(rest, Len(TakeWhile(rest, RateChars)) + 1), rows)

(* some value of the row has the character c in its text *)
HasChar(run, c) == \E k \in DOMAIN run : \E j \in DOMAIN PyStr(run[k]) : PyStr(run[k])[j] = c

HeaderWritten == pc \in {"header", "loop", "row", "done", "aborted"}

(* the rows whose line has been written *)
Written == Cardinality({p \in DOMAIN trace : trace[p][1] = "write"})

Requested == {p \in DOMAIN trace : trace[p][1] = "request"}

----------------------------------------------------------------------------
(* The run *)

(* C1 as stated: a run that completes normally on N rows leaves exactly     *)
(* N+1 lines, the header first.                                             *)
C1_LinesPerRow ==
    pc = "done" =>
        /\ Len(Lines(file)) = Len(table) + 1
        /\ Lines(file)[1] = HeaderLine

(* C1 amended: a run that completes normally leaves the header, once and    *)
(* first, then exactly one written record per fetched row in the order of   *)
(* the table; these are N+1 lines provided no value of a row has a line     *)
(* break in its text.  No row: the header alone, and a normal end.          *)
C1_HeaderThenRecordPerRow ==
    pc = "done" =>
        /\ err = "none"
        /\ StartsWith(file, Header)
        /\ Records(Drop(file, Len(Header)), table)
        /\ HeaderCount(Lines(file)) = 1
        /\ (\A k \in DOMAIN table : ~HasChar(table[k], "\n"))
              => Len(Lines(file)) = Len(table) + 1

C1_Witness ==
    /\ pc = "done"
    /\ Len(table) = 2
    /\ Len(Lines(file)) = 3

(* C2 as stated: in every state of the file, every complete line has        *)
(* exactly 8 comma-separated fields and the header occurs exactly once.     *)
C2_EightFieldsPerLine ==
    HeaderWritten =>
        /\ EightFields(Lines(file))
        /\ HeaderCount(Lines(file)) = 1

(* C2 amended: once the header is written it is the first line and occurs   *)
(* exactly once, and every complete line has exactly 8 comma-separated      *)
(* fields provided no value of a written row has a comma or a line break in *)
(* its text.                                                                *)
C2_EightFieldsOfCleanRows ==
    HeaderWritten =>
        /\ Lines(file)[1] = HeaderLine
        /\ HeaderCount(Lines(file)) = 1
        /\ (\A k \in 1..Written : ~HasChar(table[k], ",") /\ ~HasChar(table[k], "\n"))
              => EightFields(Lines(file))

C2_Witness ==
    /\ pc = "loop"
    /\ Written = 2
    /\ Len(Lines(file)) = 3
    /\ FieldCount(Lines(file)[3]) = 8

(* C3: CalcBGRate returns for a row only if the service answered with a     *)
(* page that holds the marker and the radiator type matched; when it fails  *)
(* on the k-th row the run is over with an error, the file holds the header *)
(* and the records of the rows 1..k-1, at most the k-th request was made    *)
(* and none twice, and no statement of the run can follow.                  *)
C3_FailureOnRowAborts ==
    /\ pc = "row" =>
          /\ service[requests[Len(requests)]].t = "page"
          /\ LabelPlaces(service[requests[Len(requests)]].body) # {}
          /\ SpacedDigits(table[idx][7].s) # {}
    /\ (pc = "aborted" /\ idx >= 1) =>
          /\ err # "none"
          /\ StartsWith(file, Header)
          /\ Records(Drop(file, Len(Header)), SubSeq(table, 1, idx - 1))
          /\ Written = idx - 1
          /\ Len(requests) \in {idx - 1, idx}
          /\ \A p \in Requested : trace[p][2] <= idx
          /\ \A p, r \in Requested : trace[p] = trace[r] => p = r
          /\ ~ENABLED (Open \/ WriteHeader \/ Fetch \/ Calc \/ WriteRow \/ Finish)

C3_Witness ==
    /\ pc = "aborted"
    /\ idx = 2
    /\ err = "AttributeError"
    /\ Len(requests) = 2
    /\ Len(Lines(file)) = 2

(* the number that a value of the configuration stands for *)
Configured(v) == IF v.t = "str" THEN PyFloat(v.s) ELSE Scale(v, 0)

(* the number sent under name in the query q *)
Sent(q, name) == PyFloat(q[Min({k \in DOMAIN q : q[k][1] = name})][2])

(* the values of the row alone allow the request *)
RowConverts(run) == ~IsError(conditions(run, Defaults))

(* C7: every request carries each of the eleven physics parameters with its *)
(* configured value, default or given on the command line, and a row whose  *)
(* own values convert is requested under every configuration.               *)
C7_ConfiguredValuesReachService ==
    /\ \A k \in DOMAIN requests : \A j \in DOMAIN PhysicsNames :
          Sent(requests[k], PhysicsNames[j]) = Configured(parsedArgs[PhysicsNames[j]])
    /\ (pc = "aborted" /\ idx >= 1 /\ RowConverts(table[idx])) => Len(requests) = idx

(* C8: a run that completes normally on N rows has made exactly N requests, *)
(* equal queries included; every request is logged; the database is         *)
(* queried once and before every request; the request of a row comes right  *)
(* after the line of the row before it and is made once, and the line of a  *)
(* row comes right after its request.                                       *)
C8_OneRequestPerRow ==
    /\ pc = "done" => Len(requests) = Len(table)
    /\ Len(requests) = Cardinality(Requested)
    /\ Cardinality({p \in DOMAIN trace : trace[p] = <<"query">>}) <= 1
    /\ \A p \in DOMAIN trace :
          /\ trace[p][1] = "request" =>
                /\ \E q \in 1..(p - 1) : trace[q] = <<"query">>
                /\ IF trace[p][2] = 1 THEN trace[p - 1] = <<"query">>
                   ELSE trace[p - 1] = <<"write", trace[p][2] - 1>>
                /\ \A r \in Requested : trace[r] = trace[p] => r = p
          /\ trace[p][1] = "write" => trace[p - 1] = <<"request", trace[p][2]>>

(* two rows with the same query, each requested *)
C8_Witness ==
    /\ pc = "done"
    /\ Len(table) = 2
    /\ Len(requests) = 2
    /\ requests[1] = requests[2]

(* C9: a second run with the same command line, database and service ends   *)
(* with the file holding what it held at the end of the first.              *)
C9_RerunLeavesSameFile ==
    (pc \in {"done", "aborted"} /\ runNo >= 2) => file = prevFile.s

C9_Witness ==
    /\ pc = "done"
    /\ runNo = 2
    /\ Len(table) = 2
    /\ file = prevFile.s
    /\ Len(Lines(file)) >= 3

(* the text of a run bound that int() accepts *)
IsRunNumber(v) == v.t = "str" /\ v.s # <<>> /\ \A k \in DOMAIN v.s : v.s[k] \in Digits

(* C10: when the database is queried the file holds the header and nothing  *)
(* else, whatever it held before; a run gets past the fetch only with a     *)
(* database path, numeric run bounds and a reachable database; a run whose  *)
(* fetch fails ends with an error, the file holding exactly the header, no  *)
(* request made.                                                            *)
C10_FetchFailureLeavesHeader ==
    /\ pc = "header" => file = Header /\ requests = <<>> /\ trace = <<<<"open">>>>
    /\ pc \in {"loop", "row", "done"} =>
          /\ parsedArgs["pathToRCDB"].t = "str"
          /\ IsRunNumber(parsedArgs["minRun"]) /\ IsRunNumber(parsedArgs["maxRun"])
          /\ db.status = "ok"
    /\ (pc = "aborted" /\ idx = 0) =>
          /\ err # "none"
          /\ file = Header
          /\ requests = <<>>

(* the second run fails as the first did: the file is truncated again *)
C10_Witness ==
    /\ pc = "aborted"
    /\ idx = 0
    /\ runNo = 2
    /\ parsedArgs["minRun"] = NoneV
    /\ file = Header

====
